---- MODULE Spec2Model ----
(***************************************************************************)
(* Package valid: string validators (length bounds, emptiness, regular     *)
(* expressions, e-mail) and the aggregator String, modelled from doc.go.   *)
(*                                                                         *)
(* A Go string is modelled as the sequence of its runes; a rune is a TLA+  *)
(* string naming it: the character itself for printable ASCII, "U+2019"    *)
(* for the right single quotation mark of the RegEmail literal and "U+0060" *)
(* for the grave accent.                                                   *)
(***************************************************************************)
EXTENDS Integers, Sequences, FiniteSets, TLC

VARIABLES
    registry,   \* the package variables RegAlphanumeric, RegAlphanumericPermissive, RegEmail
    pool,       \* the validators the caller has constructed so far, in construction order
    panicked,   \* NoPanic while the process runs, else the panic that aborted it and its pattern
    pc,         \* where the current call of String is: "idle", "loop" or "done"
    val,        \* String's parameter val
    v,          \* String's variadic parameter v
    i,          \* how many elements of v the range loop of String has visited
    errors,     \* String's local slice errors
    calls,      \* history: the indices of v whose Validate the current String call has invoked
    arg,        \* the validator and value of the last direct Validate call
    ret         \* the error the last direct Validate call returned

vars == <<registry, pool, panicked, pc, val, v, i, errors, calls, arg, ret>>

(***************************************************************************)
(* Bounds of the model.                                                    *)
(***************************************************************************)
\* width of the host int in bits (Go's int is 32 or 64 bits wide)
IntBits == 8
\* longest enumerated input value, in runes
MaxValLen == 3
\* longest enumerated pattern, in runes
MaxPatLen == 3
\* most validators a session constructs, hence String's longest argument list
MaxValidators == 3

(***************************************************************************)
(* Runes, strings and the host integer type.                               *)
(***************************************************************************)
\* the code point of every rune the model names
RuneCode ==
    (
     (
      (
       (
        (" " :> 32) @@ ("!" :> 33) @@ ("#" :> 35) @@ ("$" :> 36) @@ ("%" :> 37)
       ) @@ (
        ("&" :> 38) @@ ("'" :> 39) @@ ("(" :> 40) @@ (")" :> 41) @@ ("*" :> 42) @@ ("+" :> 43)
       )
      ) @@ (
       (
        ("," :> 44) @@ ("-" :> 45) @@ ("." :> 46) @@ ("/" :> 47) @@ ("0" :> 48) @@ ("1" :> 49)
       ) @@ (
        ("2" :> 50) @@ ("3" :> 51) @@ ("4" :> 52) @@ ("5" :> 53) @@ ("6" :> 54) @@ ("7" :> 55)
       )
      )
     ) @@ (
      (
       (
        ("8" :> 56) @@ ("9" :> 57) @@ (":" :> 58) @@ (";" :> 59) @@ ("<" :> 60) @@ ("=" :> 61)
       ) @@ (
        (">" :> 62) @@ ("?" :> 63) @@ ("@" :> 64) @@ ("A" :> 65) @@ ("B" :> 66) @@ ("C" :> 67)
       )
      ) @@ (
       (
        ("D" :> 68) @@ ("E" :> 69) @@ ("F" :> 70) @@ ("G" :> 71) @@ ("H" :> 72) @@ ("I" :> 73)
       ) @@ (
        ("J" :> 74) @@ ("K" :> 75) @@ ("L" :> 76) @@ ("M" :> 77) @@ ("N" :> 78) @@ ("O" :> 79)
       )
      )
     )
    ) @@ (
     (
      (
       (
        ("P" :> 80) @@ ("Q" :> 81) @@ ("R" :> 82) @@ ("S" :> 83) @@ ("T" :> 84) @@ ("U" :> 85)
       ) @@ (
        ("V" :> 86) @@ ("W" :> 87) @@ ("X" :> 88) @@ ("Y" :> 89) @@ ("Z" :> 90) @@ ("[" :> 91)
       )
      ) @@ (
       (
        ("\\" :> 92) @@ ("]" :> 93) @@ ("^" :> 94) @@ ("_" :> 95) @@ ("U+0060" :> 96) @@ ("a" :> 97)
       ) @@ (
        ("b" :> 98) @@ ("c" :> 99) @@ ("d" :> 100) @@ ("e" :> 101) @@ ("f" :> 102) @@ ("g" :> 103)
       )
      )
     ) @@ (
      (
       (
        ("h" :> 104) @@ ("i" :> 105) @@ ("j" :> 106) @@ ("k" :> 107) @@ ("l" :> 108) @@ ("m" :> 109)
       ) @@ (
        ("n" :> 110) @@ ("o" :> 111) @@ ("p" :> 112) @@ ("q" :> 113) @@ ("r" :> 114) @@ ("s" :> 115)
       )
      ) @@ (
       (
        ("t" :> 116) @@ ("u" :> 117) @@ ("v" :> 118) @@ ("w" :> 119) @@ ("x" :> 120) @@ ("y" :> 121)
       ) @@ (
        ("z" :> 122) @@ ("{" :> 123) @@ ("|" :> 124) @@ ("}" :> 125) @@ ("~" :> 126) @@ ("U+2019" :> 8217)
       )
      )
     )
    )

Runes == DOMAIN RuneCode

\* utf8.RuneLen: the number of bytes of a rune's UTF-8 encoding
utf8_RuneLen(r) ==
    IF RuneCode[r] < 128 THEN 1
    ELSE IF RuneCode[r] < 2048 THEN 2
    ELSE IF RuneCode[r] < 65536 THEN 3
    ELSE 4

\* the builtin len of a string: its length in bytes, which is the sum over
\* n of the number of its runes that take at least n bytes
len(s) ==
    Cardinality({j \in 1..Len(s) : utf8_RuneLen(s[j]) >= 1})
        + Cardinality({j \in 1..Len(s) : utf8_RuneLen(s[j]) >= 2})
        + Cardinality({j \in 1..Len(s) : utf8_RuneLen(s[j]) >= 3})
        + Cardinality({j \in 1..Len(s) : utf8_RuneLen(s[j]) >= 4})

MaxInt == 2^(IntBits - 1) - 1
MinInt == -(2^(IntBits - 1))

\* arithmetic of the host int wraps around
WrapInt(x) == ((x - MinInt) % (2^IntBits)) + MinInt

\* every sequence over S of length at most n
RECURSIVE SeqsUpTo(_, _)
SeqsUpTo(S, n) ==
    IF n = 0 THEN {<<>>}
    ELSE UNION {shorter \cup {Append(s, x) : s \in {t \in shorter : Len(t) = n - 1}, x \in S} :
                   shorter \in {SeqsUpTo(S, n - 1)}}

(***************************************************************************)
(* Errors.                                                                 *)
(***************************************************************************)
\* the nil error
NilError == [nil |-> TRUE, s |-> ""]

\* errors.New(text): a non-nil error whose Error() is text
errors_New(text) == [nil |-> FALSE, s |-> text]

(***************************************************************************)
(* Package regexp, as far as the validators use it: regexp.MustCompile     *)
(* (doc.go:76, 177, 180, 183) and Regexp.MatchString (doc.go:83).          *)
(* The syntax covered is the one the package's own patterns are written    *)
(* in: literals, ".", "^", "$", bracket classes with ranges and negation,  *)
(* escaped punctuation, groups "(...)" and "(?:...)", alternation and the  *)
(* repetitions "*", "+", "?" (greedy or not). Counted repetition, flags,   *)
(* named classes and letter or digit escapes are not covered, and no       *)
(* pattern the model compiles uses them.                                   *)
(***************************************************************************)
\* a node of the parsed expression (syntax.Regexp)
ReNode(op, rune, ranges, neg, subs) ==
    [op |-> op, rune |-> rune, ranges |-> ranges, neg |-> neg, subs |-> subs]

ReEmpty == ReNode("empty", "", <<>>, FALSE, <<>>)
ReLit(r) == ReNode("lit", r, <<>>, FALSE, <<>>)
ReAny == ReNode("any", "", <<>>, FALSE, <<>>)
ReBegin == ReNode("begin", "", <<>>, FALSE, <<>>)
ReEnd == ReNode("end", "", <<>>, FALSE, <<>>)
ReClass(ranges, neg) == ReNode("class", "", ranges, neg, <<>>)
ReUnary(op, sub) == ReNode(op, "", <<>>, FALSE, <<sub>>)
ReCat(subs) ==
    IF Len(subs) = 0 THEN ReEmpty
    ELSE IF Len(subs) = 1 THEN subs[1]
    ELSE ReNode("cat", "", <<>>, FALSE, subs)
ReAlt(subs) == IF Len(subs) = 1 THEN subs[1] ELSE ReNode("alt", "", <<>>, FALSE, subs)

\* the *regexp.Regexp no validator holds
NoRegexp == ReNode("none", "", <<>>, FALSE, <<>>)

\* the parser's error codes (syntax.ErrorCode)
ErrMissingBracket == "missing closing ]"
ErrMissingParen == "missing closing )"
ErrUnexpectedParen == "unexpected )"
ErrMissingRepeatArgument == "missing argument to repetition operator"
ErrInvalidRepeatOp == "invalid nested repetition operator"
ErrInvalidCharRange == "invalid character class range"
ErrTrailingBackslash == "trailing backslash at end of expression"
ErrInvalidEscape == "invalid escape sequence"
ErrInvalidPerlOp == "invalid or unsupported Perl syntax"

ParseOk(re, pos) == [err |-> "", re |-> re, pos |-> pos]
ParseErr(code) == [err |-> code, re |-> NoRegexp, pos |-> 0]

IsWordRune(r) ==
    \E c \in {RuneCode[r]} :
        \/ (48 <= c /\ c <= 57)
        \/ (65 <= c /\ c <= 90)
        \/ (97 <= c /\ c <= 122)
        \/ c = 95

\* one character of a class, at p[k]: [err, rune, pos]. An escaped
\* punctuation character is itself
ParseClassChar(p, k) ==
    IF k > Len(p) THEN [err |-> ErrMissingBracket, rune |-> "", pos |-> 0]
    ELSE IF p[k] # "\\" THEN [err |-> "", rune |-> p[k], pos |-> k + 1]
    ELSE IF k + 1 > Len(p) THEN [err |-> ErrTrailingBackslash, rune |-> "", pos |-> 0]
    ELSE IF RuneCode[p[k + 1]] < 128 /\ ~IsWordRune(p[k + 1])
         THEN [err |-> "", rune |-> p[k + 1], pos |-> k + 2]
    ELSE [err |-> ErrInvalidEscape, rune |-> "", pos |-> 0]

ClassErr(code) == [err |-> code, ranges |-> <<>>, pos |-> 0]

\* the rune at p[k], "" past the end of p
RuneAt(p, k) == IF k \in 1..Len(p) THEN p[k] ELSE ""

\* whether the class item at p[k] is the low end of a range: a hyphen
\* follows, and the closing bracket does not follow the hyphen
IsRangeLo(p, k) == k + 2 <= Len(p) /\ p[k + 1] = "-" /\ p[k + 2] # "]"

\* whether the class item at p[k] is one rune that stands for itself
IsPlainItem(p, k) == k <= Len(p) /\ p[k] \notin {"\\", "]"} /\ ~IsRangeLo(p, k)

\* the position after the run of plain items that starts at p[k]
PlainItemsEnd(p, k) ==
    CHOOSE e \in k..(Len(p) + 1) :
        ~IsPlainItem(p, e) /\ \A j \in k..(e - 1) : IsPlainItem(p, j)

\* one turn of the class loop on st = [err, ranges, pos]: a run of plain
\* items, a range, or one item. A hyphen not followed by the closing bracket
\* makes a range
ClassStep(p, st) ==
    LET lo == ParseClassChar(p, st.pos)
        isRange == lo.err = "" /\ RuneAt(p, lo.pos) = "-"
                       /\ RuneAt(p, lo.pos + 1) \notin {"", "]"}
        hi == ParseClassChar(p, lo.pos + 1)
    IN  CASE IsPlainItem(p, st.pos) ->
                 [err |-> "",
                  ranges |-> st.ranges \o [j \in 1..(PlainItemsEnd(p, st.pos) - st.pos) |->
                                              <<RuneCode[p[st.pos + j - 1]],
                                                RuneCode[p[st.pos + j - 1]]>>],
                  pos |-> PlainItemsEnd(p, st.pos)]
          [] ~IsPlainItem(p, st.pos) /\ lo.err # "" -> ClassErr(lo.err)
          [] ~IsPlainItem(p, st.pos) /\ isRange /\ hi.err # "" -> ClassErr(hi.err)
          [] ~IsPlainItem(p, st.pos) /\ isRange /\ hi.err = ""
                 /\ RuneCode[hi.rune] < RuneCode[lo.rune] ->
                 ClassErr(ErrInvalidCharRange)
          [] ~IsPlainItem(p, st.pos) /\ isRange /\ hi.err = ""
                 /\ RuneCode[hi.rune] >= RuneCode[lo.rune] ->
                 [err |-> "",
                  ranges |-> Append(st.ranges, <<RuneCode[lo.rune], RuneCode[hi.rune]>>),
                  pos |-> hi.pos]
          [] OTHER ->
                 [err |-> "",
                  ranges |-> Append(st.ranges, <<RuneCode[lo.rune], RuneCode[lo.rune]>>),
                  pos |-> lo.pos]

\* the items of a bracket class up to its closing bracket, from the state
\* st = [err, ranges, pos]. A closing bracket that comes first is a literal
RECURSIVE ParseClassItems(_, _, _)
ParseClassItems(p, st, first) ==
    CASE st.err # "" -> st
      [] st.err = "" /\ RuneAt(p, st.pos) = "]" /\ ~first ->
             [err |-> "", ranges |-> st.ranges, pos |-> st.pos + 1]
      [] OTHER ->
             CHOOSE result \in {ParseClassItems(p, next, FALSE) :
                                   next \in {ClassStep(p, st)}} : TRUE

\* a bracket class whose "[" is at p[k]
ParseClass(p, k) ==
    CHOOSE result \in {
        IF items.err # "" THEN ParseErr(items.err)
        ELSE ParseOk(ReClass(items.ranges, RuneAt(p, k + 1) = "^"), items.pos)
        : items \in {ParseClassItems(p,
                         [err |-> "", ranges |-> <<>>,
                          pos |-> IF RuneAt(p, k + 1) = "^" THEN k + 2 ELSE k + 1],
                         TRUE)}} : TRUE

RepeatOp(r) == IF r = "*" THEN "star" ELSE IF r = "+" THEN "plus" ELSE "quest"

RECURSIVE ParseAlt(_, _, _)
RECURSIVE ParseCat(_, _)

\* what stands at p[k] and can be repeated: a group, a bracket class, an
\* escaped character, an anchor, a dot or a literal
ParseAtom(p, k) ==
    CASE RuneAt(p, k) = "(" /\ RuneAt(p, k + 1) = "?" /\ RuneAt(p, k + 2) # ":" ->
             ParseErr(ErrInvalidPerlOp)
      [] RuneAt(p, k) = "(" /\ ~(RuneAt(p, k + 1) = "?" /\ RuneAt(p, k + 2) # ":") ->
             CHOOSE result \in {
                 IF inner.err # "" THEN inner
                 ELSE IF inner.pos > Len(p) THEN ParseErr(ErrMissingParen)
                 ELSE ParseOk(ReUnary("group", inner.re), inner.pos + 1)
                 : inner \in {ParseAlt(p, IF RuneAt(p, k + 1) = "?" THEN k + 3 ELSE k + 1,
                                       <<>>)}} : TRUE
      [] RuneAt(p, k) = "[" -> ParseClass(p, k)
      [] RuneAt(p, k) = "\\" ->
             IF ParseClassChar(p, k).err # "" THEN ParseErr(ParseClassChar(p, k).err)
             ELSE ParseOk(ReLit(ParseClassChar(p, k).rune), ParseClassChar(p, k).pos)
      [] RuneAt(p, k) = "^" -> ParseOk(ReBegin, k + 1)
      [] RuneAt(p, k) = "$" -> ParseOk(ReEnd, k + 1)
      [] RuneAt(p, k) = "." -> ParseOk(ReAny, k + 1)
      [] OTHER -> ParseOk(ReLit(p[k]), k + 1)

\* one turn of the concatenation loop on st = [err, acc, pos]: the atom at
\* p[st.pos] and the repetition operator that follows it, if one does
CatStep(p, st) ==
    CHOOSE result \in {
        IF atom.err # "" THEN [err |-> atom.err, acc |-> <<>>, pos |-> 0]
        ELSE IF RuneAt(p, atom.pos) \in {"*", "+", "?"}
        THEN [err |-> "",
              acc |-> Append(st.acc, ReUnary(RepeatOp(p[atom.pos]), atom.re)),
              pos |-> IF RuneAt(p, atom.pos + 1) = "?" THEN atom.pos + 2 ELSE atom.pos + 1]
        ELSE [err |-> "", acc |-> Append(st.acc, atom.re), pos |-> atom.pos]
        : atom \in {ParseAtom(p, st.pos)}} : TRUE

\* a concatenation up to "|", ")" or the end, from the state st = [err, acc,
\* pos]; acc holds the pieces parsed so far. A repetition operator found
\* where a piece should start has nothing to repeat, or follows a repetition
ParseCat(p, st) ==
    CASE st.err # "" -> ParseErr(st.err)
      [] st.err = "" /\ RuneAt(p, st.pos) \in {"", "|", ")"} ->
             ParseOk(ReCat(st.acc), st.pos)
      [] st.err = "" /\ RuneAt(p, st.pos) \in {"*", "+", "?"} /\ st.acc = <<>> ->
             ParseErr(ErrMissingRepeatArgument)
      [] st.err = "" /\ RuneAt(p, st.pos) \in {"*", "+", "?"} /\ st.acc # <<>> ->
             ParseErr(ErrInvalidRepeatOp)
      [] OTHER ->
             CHOOSE result \in {ParseCat(p, next) : next \in {CatStep(p, st)}} : TRUE

\* an alternation from p[k] up to ")" or the end; alts holds the branches so far
ParseAlt(p, k, alts) ==
    CHOOSE result \in {
        IF branch.err # "" THEN branch
        ELSE IF RuneAt(p, branch.pos) = "|"
        THEN ParseAlt(p, branch.pos + 1, Append(alts, branch.re))
        ELSE ParseOk(ReAlt(Append(alts, branch.re)), branch.pos)
        : branch \in {ParseCat(p, [err |-> "", acc |-> <<>>, pos |-> k])}} : TRUE

\* regexp.Compile(expr): [err, re]; err is "" when expr is a valid expression
regexp_Compile(expr) ==
    CHOOSE result \in {
        IF top.err # "" THEN [err |-> top.err, re |-> NoRegexp]
        ELSE IF top.pos <= Len(expr) THEN [err |-> ErrUnexpectedParen, re |-> NoRegexp]
        ELSE [err |-> "", re |-> top.re]
        : top \in {ParseAlt(expr, 1, <<>>)}} : TRUE

\* whether a class node holds rune r
InClass(re, r) ==
    (\E k \in 1..Len(re.ranges), c \in {RuneCode[r]} :
        re.ranges[k][1] <= c /\ c <= re.ranges[k][2]) # re.neg

\* whether re is an expression that matches exactly one rune
IsOneRune(re) == re.op \in {"lit", "any", "class"}

\* whether the one-rune expression re matches rune r
MatchesRune(re, r) ==
    CASE re.op = "lit" -> r = re.rune
      [] re.op = "any" -> TRUE
      [] re.op = "class" -> InClass(re, r)
      [] OTHER -> FALSE

\* the offset at which the longest run of runes of s that starts at offset j
\* and whose runes all match the one-rune expression re ends
RunEnd(re, s, j) ==
    CHOOSE e \in j..Len(s) :
        /\ e = Len(s) \/ ~MatchesRune(re, s[e + 1])
        /\ \A t \in (j + 1)..e : MatchesRune(re, s[t])

RECURSIVE ReEnds(_, _, _)
RECURSIVE ReEndsCat(_, _, _)

\* the offsets (in runes) at which a match of re that starts at offset j of s
\* can end. The repetition of a one-rune expression is a run of such runes
ReEnds(re, s, j) ==
    CASE re.op = "empty" -> {j}
      [] re.op \in {"lit", "any", "class"} ->
             IF j < Len(s) /\ MatchesRune(re, s[j + 1]) THEN {j + 1} ELSE {}
      [] re.op = "begin" -> IF j = 0 THEN {j} ELSE {}
      [] re.op = "end" -> IF j = Len(s) THEN {j} ELSE {}
      [] re.op = "group" -> ReEnds(re.subs[1], s, j)
      [] re.op = "cat" -> ReEndsCat(re.subs, s, j)
      [] re.op = "alt" -> UNION {ReEnds(re.subs[k], s, j) : k \in 1..Len(re.subs)}
      [] re.op = "star" /\ IsOneRune(re.subs[1]) -> j..RunEnd(re.subs[1], s, j)
      [] re.op = "plus" /\ IsOneRune(re.subs[1]) -> (j + 1)..RunEnd(re.subs[1], s, j)
      [] re.op = "star" /\ ~IsOneRune(re.subs[1]) ->
             {j} \cup UNION {ReEnds(re, s, m) : m \in ReEnds(re.subs[1], s, j) \ {j}}
      [] re.op = "plus" /\ ~IsOneRune(re.subs[1]) ->
             UNION {ReEnds(ReUnary("star", re.subs[1]), s, m) : m \in ReEnds(re.subs[1], s, j)}
      [] re.op = "quest" -> {j} \cup ReEnds(re.subs[1], s, j)
      [] OTHER -> {}

ReEndsCat(subs, s, j) ==
    IF subs = <<>> THEN {j}
    ELSE UNION {ReEndsCat(Tail(subs), s, m) : m \in ReEnds(Head(subs), s, j)}

\* Regexp.MatchString: whether s contains any match of re; the match may
\* start and end anywhere unless the expression itself says otherwise
MatchString(re, s) == \E j \in 0..Len(s) : ReEnds(re, s, j) # {}

\* regexp.MustCompile(str): the compiled expression, or the panic
MustCompile(str) ==
    CHOOSE result \in {
        IF c.err # "" THEN [panic |-> c.err, re |-> NoRegexp]
        ELSE [panic |-> "", re |-> c.re]
        : c \in {regexp_Compile(str)}} : TRUE

(***************************************************************************)
(* Package net/mail, as far as EmailRFC uses it: mail.ParseAddress         *)
(* (doc.go:204). The addresses covered are the two forms of a mailbox      *)
(* built from atoms: addr-spec (local@domain) and name-addr (an optional   *)
(* phrase of atoms, then <local@domain>). Quoted strings, comments,        *)
(* domain literals, groups and encoded words are not covered, and no value *)
(* the model parses holds the runes that start them.                       *)
(***************************************************************************)
\* the *mail.Address ParseAddress returns beside an error
NilAddress == [nil |-> TRUE, Name |-> <<>>, Address |-> <<>>]

MailOk(name, spec) ==
    [addr |-> [nil |-> FALSE, Name |-> name, Address |-> spec], err |-> NilError]
MailErr(text) == [addr |-> NilAddress, err |-> errors_New(text)]

\* mail.isAtext: a visible character that is not one of the specials
isAtext(r, dot) ==
    IF r = "." THEN dot
    ELSE IF r \in {"(", ")", "<", ">", "[", "]", ":", ";", "@", "\\", ","} THEN FALSE
    ELSE \E c \in {RuneCode[r]} : (33 <= c /\ c <= 126) \/ c >= 128

\* addrParser.skipSpace: the position of the first rune at or after k that is no space
skipSpace(s, k) ==
    IF \E j \in k..Len(s) : s[j] # " "
    THEN CHOOSE j \in k..Len(s) : s[j] # " " /\ \A m \in k..(j - 1) : s[m] = " "
    ELSE IF k > Len(s) THEN k ELSE Len(s) + 1

\* the position after the longest run of atext runes that starts at k
AtomEnd(s, k, dot) ==
    IF \E j \in k..Len(s) : ~isAtext(s[j], dot)
    THEN CHOOSE j \in k..Len(s) :
             ~isAtext(s[j], dot) /\ \A m \in k..(j - 1) : isAtext(s[m], dot)
    ELSE IF k > Len(s) THEN k ELSE Len(s) + 1

AtomErr(text, k) == [err |-> text, atom |-> <<>>, pos |-> k]

\* addrParser.consumeAtom at position k: [err, atom, pos]
consumeAtom(s, k, dot, permissive) ==
    CHOOSE result \in {
        LET atom == SubSeq(s, k, e - 1)
        IN  IF e = k THEN AtomErr("mail: invalid string", k)
            ELSE IF ~permissive /\ atom[1] = "."
            THEN AtomErr("mail: leading dot in atom", k)
            ELSE IF ~permissive
                    /\ \E j \in 1..(Len(atom) - 1) : atom[j] = "." /\ atom[j + 1] = "."
            THEN AtomErr("mail: double dot in atom", k)
            ELSE IF ~permissive /\ atom[Len(atom)] = "."
            THEN AtomErr("mail: trailing dot in atom", k)
            ELSE [err |-> "", atom |-> atom, pos |-> e]
        : e \in {AtomEnd(s, k, dot)}} : TRUE

SpecErr(text, k) == [err |-> text, spec |-> <<>>, pos |-> k]

\* the domain of an addr-spec, after the local part and its "@"
consumeDomain(s, k, localPart) ==
    CHOOSE result \in {
        IF domain.err # "" THEN SpecErr(domain.err, k)
        ELSE [err |-> "",
              spec |-> localPart.atom \o <<"@">> \o domain.atom,
              pos |-> domain.pos]
        : domain \in {consumeAtom(s, skipSpace(s, localPart.pos + 1), TRUE, FALSE)}} : TRUE

\* addrParser.consumeAddrSpec at position k: [err, spec, pos]; on an error
\* the parser is put back where it was
consumeAddrSpec(s, k) ==
    CHOOSE result \in {
        CASE skipSpace(s, k) > Len(s) -> SpecErr("mail: no addr-spec", k)
          [] skipSpace(s, k) <= Len(s) /\ localPart.err # "" -> SpecErr(localPart.err, k)
          [] skipSpace(s, k) <= Len(s) /\ localPart.err = ""
                 /\ ~(localPart.pos <= Len(s) /\ s[localPart.pos] = "@") ->
                 SpecErr("mail: missing @ in addr-spec", k)
          [] skipSpace(s, k) <= Len(s) /\ localPart.err = ""
                 /\ localPart.pos <= Len(s) /\ s[localPart.pos] = "@"
                 /\ skipSpace(s, localPart.pos + 1) > Len(s) ->
                 SpecErr("mail: no domain in addr-spec", k)
          [] OTHER -> consumeDomain(s, k, localPart)
        : localPart \in {consumeAtom(s, skipSpace(s, k), TRUE, FALSE)}} : TRUE

\* the loop of addrParser.consumePhrase: [err, words, pos]
RECURSIVE PhraseWords(_, _, _)
PhraseWords(s, k, words) ==
    CHOOSE result \in {
        CASE skipSpace(s, k) > Len(s) ->
                 [err |-> "", words |-> words, pos |-> skipSpace(s, k)]
          [] skipSpace(s, k) <= Len(s) /\ word.err # "" ->
                 [err |-> word.err, words |-> words, pos |-> skipSpace(s, k)]
          [] OTHER -> PhraseWords(s, word.pos, Append(words, word.atom))
        : word \in {consumeAtom(s, skipSpace(s, k), TRUE, TRUE)}} : TRUE

\* strings.Join(words, " ")
RECURSIVE JoinWords(_)
JoinWords(words) ==
    IF words = <<>> THEN <<>>
    ELSE IF Len(words) = 1 THEN words[1]
    ELSE words[1] \o <<" ">> \o JoinWords(Tail(words))

\* addrParser.consumePhrase at position k: [err, phrase, pos]; an error after
\* the first word is ignored
consumePhrase(s, k) ==
    CHOOSE result \in {
        IF w.err # "" /\ w.words = <<>>
        THEN [err |-> "mail: missing word in phrase: mail: invalid string",
              phrase |-> <<>>, pos |-> w.pos]
        ELSE [err |-> "", phrase |-> JoinWords(w.words), pos |-> w.pos]
        : w \in {PhraseWords(s, k, <<>>)}} : TRUE

\* the angle-addr of a name-addr whose "<" is at position k
ParseAngleAddr(s, k, name) ==
    CHOOSE result \in {
        IF angle.err # "" THEN MailErr(angle.err)
        ELSE IF ~(angle.pos <= Len(s) /\ s[angle.pos] = ">")
        THEN MailErr("mail: unclosed angle-addr")
        ELSE IF skipSpace(s, angle.pos + 1) <= Len(s)
        THEN MailErr("mail: expected single address")
        ELSE MailOk(name.phrase, angle.spec)
        : angle \in {consumeAddrSpec(s, k + 1)}} : TRUE

\* the name-addr branch of addrParser.parseAddress, the parser at position k0
ParseNameAddr(s, k0) ==
    CHOOSE result \in {
        CASE name.err # "" -> MailErr(name.err)
          [] name.err = "" /\ skipSpace(s, name.pos) <= Len(s)
                 /\ s[skipSpace(s, name.pos)] = "<" ->
                 ParseAngleAddr(s, skipSpace(s, name.pos), name)
          [] name.err = ""
                 /\ ~(skipSpace(s, name.pos) <= Len(s) /\ s[skipSpace(s, name.pos)] = "<")
                 /\ \A j \in 1..Len(name.phrase) : isAtext(name.phrase[j], TRUE) ->
                 MailErr("mail: missing '@' or angle-addr")
          [] OTHER -> MailErr("mail: no angle-addr")
        : name \in {IF s[k0] # "<" THEN consumePhrase(s, k0)
                    ELSE [err |-> "", phrase |-> <<>>, pos |-> k0]}} : TRUE

\* mail.ParseAddress: addrParser.parseAddress, then parseSingleAddress's
\* check that nothing but space follows: [addr, err]
mail_ParseAddress(s) ==
    CHOOSE result \in {
        CASE skipSpace(s, 1) > Len(s) -> MailErr("mail: no address")
          [] skipSpace(s, 1) <= Len(s) /\ bare.err = ""
                 /\ skipSpace(s, bare.pos) <= Len(s) ->
                 MailErr("mail: expected single address")
          [] skipSpace(s, 1) <= Len(s) /\ bare.err = ""
                 /\ skipSpace(s, bare.pos) > Len(s) ->
                 MailOk(<<>>, bare.spec)
          [] OTHER -> ParseNameAddr(s, skipSpace(s, 1))
        : bare \in {consumeAddrSpec(s, skipSpace(s, 1))}} : TRUE

(***************************************************************************)
(* Validators. A StringFunc is the function literal its constructor        *)
(* returns, with the variables it closes over: kind names the constructor  *)
(* whose literal it is, min, max, reg and message are the captured         *)
(* parameters (those its constructor does not have hold a default). ctor   *)
(* is history: the exported constructor the caller invoked.                *)
(***************************************************************************)
\* a compiled *regexp.Regexp: the source text it keeps and the parsed expression
Compiled(expr, re) == [expr |-> expr, re |-> re]
NilRegexp == Compiled(<<>>, NoRegexp)

StringFunc(kind, min, max, reg, message) ==
    [ctor |-> kind, kind |-> kind, min |-> min, max |-> max, reg |-> reg,
     message |-> message]

\* no validator
NoValidator == StringFunc("none", 0, 0, NilRegexp, "")

\* the function literal of RegexpCompiled
RegexpCompiledFunc(reg, message, value) ==
    IF MatchString(reg.re, value) THEN NilError ELSE errors_New(message)

\* a variant of LenFunc that excludes both bounds
LenFuncExclusive(min, max, message, value) ==
    IF max <= len(value) \/ len(value) <= min THEN errors_New(message) ELSE NilError

\* the function literal of Len
LenFunc(min, max, message, value) ==
    IF max < len(value) \/ len(value) < min THEN errors_New(message) ELSE NilError

\* the function literal of MinLen
MinLenFunc(min, message, value) ==
    IF len(value) < min THEN errors_New(message) ELSE NilError

\* the function literal of MaxLen
MaxLenFunc(max, message, value) ==
    IF len(value) > max THEN errors_New(message) ELSE NilError

\* a variant of LenStrictFunc that includes both bounds
LenStrictFuncInclusive(min, max, message, value) ==
    IF max < len(value) \/ len(value) < min THEN errors_New(message) ELSE NilError

\* the function literal of LenStrict
LenStrictFunc(min, max, message, value) ==
    IF max <= len(value) \/ len(value) <= min THEN errors_New(message) ELSE NilError

\* a variant of MinLenStrictFunc that accepts a value of length min
MinLenStrictFuncInclusive(min, message, value) ==
    IF len(value) < min THEN errors_New(message) ELSE NilError

\* the function literal of MinLenStrict
MinLenStrictFunc(min, message, value) ==
    IF len(value) <= min THEN errors_New(message) ELSE NilError

\* the function literal of MaxLenStrict
MaxLenStrictFunc(max, message, value) ==
    IF len(value) >= max THEN errors_New(message) ELSE NilError

\* the function literal of Nonempty
NonemptyFunc(message, value) ==
    IF value = <<>> THEN errors_New(message) ELSE NilError

\* a variant of EmailRFCFunc that returns the parser's own error
EmailRFCFuncParserError(message, value) ==
    CHOOSE result \in {
        IF ~parsed.err.nil THEN parsed.err
        ELSE IF parsed.addr.Name # <<>> THEN errors_New(message)
        ELSE NilError
        : parsed \in {mail_ParseAddress(value)}} : TRUE

\* a variant of EmailRFCFunc that does not look at the display name
EmailRFCFuncAnyName(message, value) ==
    CHOOSE result \in {
        IF ~parsed.err.nil THEN errors_New(message) ELSE NilError
        : parsed \in {mail_ParseAddress(value)}} : TRUE

\* the function literal of EmailRFC
EmailRFCFunc(message, value) ==
    CHOOSE result \in {
        IF ~parsed.err.nil \/ parsed.addr.Name # <<>>
        THEN errors_New(message)
        ELSE NilError
        : parsed \in {mail_ParseAddress(value)}} : TRUE

\* StringFunc.Validate: the call s(val) of the wrapped function literal
Validate(s, value) ==
    CASE s.kind = "RegexpCompiled" -> RegexpCompiledFunc(s.reg, s.message, value)
      [] s.kind = "Len" -> LenFunc(s.min, s.max, s.message, value)
      [] s.kind = "MinLen" -> MinLenFunc(s.min, s.message, value)
      [] s.kind = "MaxLen" -> MaxLenFunc(s.max, s.message, value)
      [] s.kind = "LenStrict" -> LenStrictFunc(s.min, s.max, s.message, value)
      [] s.kind = "MinLenStrict" -> MinLenStrictFunc(s.min, s.message, value)
      [] s.kind = "MaxLenStrict" -> MaxLenStrictFunc(s.max, s.message, value)
      [] s.kind = "Nonempty" -> NonemptyFunc(s.message, value)
      [] s.kind = "EmailRFC" -> EmailRFCFunc(s.message, value)

\* the constructors
RegexpCompiled(reg, message) == StringFunc("RegexpCompiled", 0, 0, reg, message)

\* a variant of Regexp that uses Compile and, when the pattern does not
\* compile, returns a validator no value passes
RegexpLenient(pattern, message) ==
    CHOOSE result \in {
        [panic |-> "",
         sv |-> [RegexpCompiled(
                     Compiled(pattern, IF c.err # "" THEN ReClass(<<>>, FALSE) ELSE c.re),
                     message)
                    EXCEPT !.ctor = "Regexp"]]
        : c \in {regexp_Compile(pattern)}} : TRUE

\* Regexp: [panic, sv]; panic is "" when MustCompile returns
Regexp(pattern, message) ==
    CHOOSE result \in {
        IF reg.panic # "" THEN [panic |-> reg.panic, sv |-> NoValidator]
        ELSE [panic |-> "",
              sv |-> [RegexpCompiled(Compiled(pattern, reg.re), message)
                         EXCEPT !.ctor = "Regexp"]]
        : reg \in {MustCompile(pattern)}} : TRUE

valid_Len(min, max, message) == StringFunc("Len", min, max, NilRegexp, message)
MinLen(min, message) == StringFunc("MinLen", min, 0, NilRegexp, message)
MaxLen(max, message) == StringFunc("MaxLen", 0, max, NilRegexp, message)
LenStrict(min, max, message) == StringFunc("LenStrict", min, max, NilRegexp, message)
MinLenStrict(min, message) == StringFunc("MinLenStrict", min, 0, NilRegexp, message)
MaxLenStrict(max, message) == StringFunc("MaxLenStrict", 0, max, NilRegexp, message)
Nonempty(message) == StringFunc("Nonempty", 0, 0, NilRegexp, message)
EmailRFC(message) == StringFunc("EmailRFC", 0, 0, NilRegexp, message)

(***************************************************************************)
(* The pattern registry: the package variables of doc.go:175-184.          *)
(***************************************************************************)
RegAlphanumericExpr ==
    <<"^", "[", "a", "-", "z", "A", "-", "Z", "0", "-", "9", "]", "*", "$">>

RegAlphanumericPermissiveExpr ==
    <<"^", "[", "a", "-", "z", "A", "-", "Z", "0", "-", "9", "-", "_", ".", "]", "*",
      "$">>

RegEmailExpr ==
    <<"^", "[", "a", "-", "z", "A", "-", "Z", "0", "-", "9", ".", "!", "#", "$", "%",
      "&", "U+2019", "*", "+", "/", "=", "?", "^", "_", "U+0060", "{", "|", "}", "~",
      "-", "]", "+", "@", "[", "a", "-", "z", "A", "-", "Z", "0", "-", "9", "-", "]",
      "+", "(", "?", ":", "\\", ".", "[", "a", "-", "z", "A", "-", "Z", "0", "-", "9",
      "-", "]", "+", ")", "*", "$">>

\* the values the package initializer gives the three variables
RegistryInit ==
    [RegAlphanumeric |->
         Compiled(RegAlphanumericExpr, MustCompile(RegAlphanumericExpr).re),
     RegAlphanumericPermissive |->
         Compiled(RegAlphanumericPermissiveExpr, MustCompile(RegAlphanumericPermissiveExpr).re),
     RegEmail |-> Compiled(RegEmailExpr, MustCompile(RegEmailExpr).re)]

Alphanumeric(message) ==
    [RegexpCompiled(registry.RegAlphanumeric, message) EXCEPT !.ctor = "Alphanumeric"]
AlphanumericPermissive(message) ==
    [RegexpCompiled(registry.RegAlphanumericPermissive, message)
        EXCEPT !.ctor = "AlphanumericPermissive"]
Email(message) == [RegexpCompiled(registry.RegEmail, message) EXCEPT !.ctor = "Email"]

(***************************************************************************)
(* Slices of errors.                                                       *)
(***************************************************************************)
NilSlice == [nil |-> TRUE, elems |-> <<>>]
\* a variant of make that yields the nil slice, as "var errors []error" would
makeNil == [nil |-> TRUE, elems |-> <<>>]

\* make([]error, 0): an empty slice that is not nil
make == [nil |-> FALSE, elems |-> <<>>]
append(slice, e) == [nil |-> FALSE, elems |-> Append(slice.elems, e)]

(***************************************************************************)
(* The inputs the caller draws from. The Test values are the inputs of the *)
(* package's tests.                                                        *)
(***************************************************************************)
TestNonmatch ==
    <<"n", "o", "n", "m", "a", "t", "c", "h", "0", "0", "3">>

TestMatch ==
    <<"m", "a", "t", "c", "h">>

TestAbcd ==
    <<"a", "b", "c", "d">>

TestLetters ==
    <<"a", "f", "d", "S", "A", "D", "S", "g", "d", "f", "g", "f", "d", "s">>

TestDigits ==
    <<"0", "5", "4", "3", "6", "0", "2", "4", "3">>

TestPrefixed ==
    <<"_", "_", "%", "$", "a", "b", "c", "0", "1", "2", "d", "e", "f">>

TestSymbols ==
    <<"_", ".", "-", ".", "_">>

TestNonalnum ==
    <<"$", "#", "@">>

TestHello ==
    <<"h", "e", "l", "l", "o">>

TestEmail ==
    <<"j", "o", ".", "h", "n", "+", "t", "a", "g", "@", "s", "u", "b", "d", "o", "m",
      "a", "i", "n", ".", "e", "x", "a", "m", "p", "l", "e", ".", "c", "o", "m">>

TestBadEmail ==
    <<"%", "$", ")", "@", "j", "o", ".", "h", "n", "+", "t", "a", "g", "@", "s", "u",
      "b", "d", "o", "m", "a", "i", "n", ".", "e", "x", "a", "m", "p", "l", "e", ".",
      "c", "o", "m">>

TestNamedEmail ==
    <<"J", "o", "h", "n", " ", "<", "j", "o", ".", "h", "n", "+", "t", "a", "g", "@",
      "s", "u", "b", "d", "o", "m", "a", "i", "n", ".", "e", "x", "a", "m", "p", "l",
      "e", ".", "c", "o", "m", ">">>

TestJohn ==
    <<"j", "o", "h", "n">>

TestPattern ==
    <<"^", "[", "a", "-", "z", "]", "+", "$">>

ApostropheEmail ==
    <<"o", "'", "b", "r", "i", "e", "n", "@", "e", "x", "a", "m", "p", "l", "e", ".",
      "c", "o", "m">>

QuoteMarkEmail ==
    <<"o", "U+2019", "b", "r", "i", "e", "n", "@", "e", "x", "a", "m", "p", "l", "e",
      ".", "c", "o", "m">>

\* the messages a caller configures
Messages == {"", "a"}

\* the integers a caller passes as bounds: the ends of the host int and the
\* integers around the lengths of the values
IntInputs == {MinInt, MinInt + 1, MaxInt - 1, MaxInt} \cup (-2..(3 * MaxValLen + 2))

\* values of every byte length up to 3 * MaxValLen: "a" is one byte long,
\* U+2019 three
LenValues == SeqsUpTo({"a", "U+2019"}, MaxValLen) \cup {TestAbcd}

\* the runes of the enumerated text values
TextRunes == {"a", "0", "-", ".", "@", "'", "U+2019", "<", ">"}

TextValues ==
    SeqsUpTo(TextRunes, MaxValLen) \cup
    {TestNonmatch, TestMatch, TestAbcd, TestLetters, TestDigits, TestPrefixed,
     TestSymbols, TestNonalnum, TestHello, TestEmail, TestBadEmail, TestNamedEmail,
     TestJohn, ApostropheEmail, QuoteMarkEmail}

\* the runes of the enumerated patterns, and the patterns
PatRunes == {"a", "b", "^", "$", "*", "[", "]", "(", ")", "|"}
Patterns == SeqsUpTo(PatRunes, MaxPatLen) \cup {TestPattern}

\* the values the enumerated patterns are matched against
PatValues == SeqsUpTo({"a", "b"}, MaxValLen) \cup {TestNonmatch, TestMatch}

\* the compiled expressions a caller passes to RegexpCompiled
CompiledInputs ==
    {Compiled(p, regexp_Compile(p).re) :
        p \in {q \in SeqsUpTo(PatRunes, 2) \cup {TestPattern} : regexp_Compile(q).err = ""}}

\* the values a caller validates with validator s
ValuesFor(s) ==
    IF s.kind = "RegexpCompiled" /\ s.ctor \in {"Regexp", "RegexpCompiled"} THEN PatValues
    ELSE IF s.kind \in {"RegexpCompiled", "EmailRFC", "Nonempty"} THEN TextValues
    ELSE LenValues

\* the values of a session
SessionValues == {<<>>, TestJohn, TestEmail}

(***************************************************************************)
(* The state machine: a caller that constructs validators, calls Validate  *)
(* on them and calls String with the validators it has constructed.        *)
(***************************************************************************)
NoPanic == [code |-> "", expr |-> <<>>]
NoCall == [sv |-> NoValidator, val |-> <<>>]

Init ==
    /\ registry = RegistryInit
    /\ pool = <<>>
    /\ panicked = NoPanic
    /\ pc = "idle"
    /\ val = <<>>
    /\ v = <<>>
    /\ i = 0
    /\ errors = NilSlice
    /\ calls = <<>>
    /\ arg = NoCall
    /\ ret = NilError

\* the caller is between two calls of the package
Ready == panicked = NoPanic /\ pc # "loop"

\* a constructor returns sv to the caller
Construct(sv) ==
    /\ Ready
    /\ Len(pool) < MaxValidators
    /\ pool' = Append(pool, sv)
    /\ UNCHANGED <<registry, panicked, pc, val, v, i, errors, calls, arg, ret>>

CallLen(min, max, message) == Construct(valid_Len(min, max, message))
CallMinLen(min, message) == Construct(MinLen(min, message))
CallMaxLen(max, message) == Construct(MaxLen(max, message))
CallLenStrict(min, max, message) == Construct(LenStrict(min, max, message))
CallMinLenStrict(min, message) == Construct(MinLenStrict(min, message))
CallMaxLenStrict(max, message) == Construct(MaxLenStrict(max, message))
CallNonempty(message) == Construct(Nonempty(message))
CallEmailRFC(message) == Construct(EmailRFC(message))
CallRegexpCompiled(reg, message) == Construct(RegexpCompiled(reg, message))
CallAlphanumeric(message) == Construct(Alphanumeric(message))
CallAlphanumericPermissive(message) == Construct(AlphanumericPermissive(message))
CallEmail(message) == Construct(Email(message))

\* Regexp either returns a validator or panics, which ends the process
CallRegexp(pattern, message) ==
    /\ Ready
    /\ Len(pool) < MaxValidators
    /\ \E r \in {Regexp(pattern, message)} :
           IF r.panic # ""
           THEN /\ panicked' = [code |-> r.panic, expr |-> pattern]
                /\ UNCHANGED pool
           ELSE /\ pool' = Append(pool, r.sv)
                /\ UNCHANGED panicked
    /\ UNCHANGED <<registry, pc, val, v, i, errors, calls, arg, ret>>

\* a variant of CallValidate in which validating with the e-mail pattern
\* replaces the registry entry RegEmail
CallValidateRecompiling(k, value) ==
    /\ Ready
    /\ k \in 1..Len(pool)
    /\ arg' = [sv |-> pool[k], val |-> value]
    /\ ret' = Validate(pool[k], value)
    /\ registry' = [registry EXCEPT !.RegEmail = registry.RegAlphanumeric]
    /\ pc' = "idle"
    /\ val' = <<>>
    /\ v' = <<>>
    /\ i' = 0
    /\ errors' = NilSlice
    /\ calls' = <<>>
    /\ UNCHANGED <<pool, panicked>>

\* the caller calls Validate on the k-th validator it holds
CallValidate(k, value) ==
    /\ Ready
    /\ k \in 1..Len(pool)
    /\ arg' = [sv |-> pool[k], val |-> value]
    /\ ret' = Validate(pool[k], value)
    /\ pc' = "idle"
    /\ val' = <<>>
    /\ v' = <<>>
    /\ i' = 0
    /\ errors' = NilSlice
    /\ calls' = <<>>
    /\ UNCHANGED <<registry, pool, panicked>>

\* String is called with the validators the caller holds: errors is made
StringCall(value) ==
    /\ Ready
    /\ pc' = "loop"
    /\ val' = value
    /\ v' = pool
    /\ i' = 0
    /\ errors' = make
    /\ calls' = <<>>
    /\ arg' = NoCall
    /\ ret' = NilError
    /\ UNCHANGED <<registry, pool, panicked>>

\* a variant of StringLoop that leaves the loop at the first failure
StringLoopUntilFailure ==
    /\ pc = "loop"
    /\ i < Len(v)
    /\ \E err \in {Validate(v[i + 1], val)} :
           /\ calls' = Append(calls, i + 1)
           /\ errors' = IF ~err.nil THEN append(errors, err) ELSE errors
           /\ i' = IF ~err.nil THEN Len(v) ELSE i + 1
    /\ UNCHANGED <<registry, pool, panicked, pc, val, v, arg, ret>>

\* one iteration of String's range loop
StringLoop ==
    /\ pc = "loop"
    /\ i < Len(v)
    /\ \E err \in {Validate(v[i + 1], val)} :
           /\ calls' = Append(calls, i + 1)
           /\ errors' = IF ~err.nil THEN append(errors, err) ELSE errors
    /\ i' = i + 1
    /\ UNCHANGED <<registry, pool, panicked, pc, val, v, arg, ret>>

\* the range loop is over: String returns errors
StringReturn ==
    /\ pc = "loop"
    /\ i = Len(v)
    /\ pc' = "done"
    /\ UNCHANGED <<registry, pool, panicked, val, v, i, errors, calls, arg, ret>>

\* a session: the validators of the package's documentation and tests, and
\* every operation on them
Next ==
    \/ CallMinLen(5, "this should fail")
    \/ CallMaxLen(10, "this should pass")
    \/ CallNonempty("This field is required.")
    \/ CallEmailRFC("a")
    \/ CallAlphanumeric("a")
    \/ CallAlphanumericPermissive("a")
    \/ CallEmail("is not email")
    \/ \E k \in 1..Len(pool), value \in SessionValues : CallValidate(k, value)
    \/ \E value \in SessionValues : StringCall(value)
    \/ StringLoop
    \/ StringReturn

Spec == Init /\ [][Next]_vars

\* one validator, constructed from any of the inputs, and one call of its
\* Validate with any of the values
NextValidate ==
    \/ /\ pool = <<>>
       /\ \E min \in IntInputs, max \in IntInputs, message \in Messages :
              CallLen(min, max, message)
    \/ /\ pool = <<>>
       /\ \E min \in IntInputs, message \in Messages : CallMinLen(min, message)
    \/ /\ pool = <<>>
       /\ \E max \in IntInputs, message \in Messages : CallMaxLen(max, message)
    \/ /\ pool = <<>>
       /\ \E min \in IntInputs, max \in IntInputs, message \in Messages :
              CallLenStrict(min, max, message)
    \/ /\ pool = <<>>
       /\ \E min \in IntInputs, message \in Messages : CallMinLenStrict(min, message)
    \/ /\ pool = <<>>
       /\ \E max \in IntInputs, message \in Messages : CallMaxLenStrict(max, message)
    \/ /\ pool = <<>>
       /\ \E message \in Messages : CallNonempty(message)
    \/ /\ pool = <<>>
       /\ \E message \in Messages : CallEmailRFC(message)
    \/ /\ pool = <<>>
       /\ \E reg \in CompiledInputs, message \in Messages : CallRegexpCompiled(reg, message)
    \/ /\ pool = <<>>
       /\ \E message \in Messages : CallAlphanumeric(message)
    \/ /\ pool = <<>>
       /\ \E message \in Messages : CallAlphanumericPermissive(message)
    \/ /\ pool = <<>>
       /\ \E message \in Messages : CallEmail(message)
    \/ /\ pool = <<>>
       /\ \E pattern \in Patterns, message \in Messages : CallRegexp(pattern, message)
    \/ /\ Len(pool) = 1
       /\ arg = NoCall
       /\ \E value \in ValuesFor(pool[1]) : CallValidate(1, value)

SpecValidate == Init /\ [][NextValidate]_vars


(***************************************************************************)
(* Concurrent callers. Goroutines that share the validators of pool and    *)
(* the registry call String at the same time. What String works on is its  *)
(* own: the parameters val and v, the loop position and the slice errors   *)
(* (doc.go:63-72) live in the frame of the call. In this specification     *)
(* each of pc, val, v, i, errors and calls is therefore a function from    *)
(* the goroutines to that goroutine's copy. A validator reads what its     *)
(* constructor captured (doc.go:81-89) and writes nothing, and a           *)
(* *regexp.Regexp may be used by several goroutines at once.               *)
(***************************************************************************)
\* the goroutines that call String
Goroutines == {1, 2}

InitConcurrent ==
    /\ registry = RegistryInit
    /\ pool = <<>>
    /\ panicked = NoPanic
    /\ pc = [g \in Goroutines |-> "idle"]
    /\ val = [g \in Goroutines |-> <<>>]
    /\ v = [g \in Goroutines |-> <<>>]
    /\ i = [g \in Goroutines |-> 0]
    /\ errors = [g \in Goroutines |-> NilSlice]
    /\ calls = [g \in Goroutines |-> <<>>]
    /\ arg = NoCall
    /\ ret = NilError

\* a constructor returns sv before the goroutines are started
ConstructShared(sv) ==
    /\ \A g \in Goroutines : pc[g] = "idle"
    /\ Len(pool) < MaxValidators
    /\ pool' = Append(pool, sv)
    /\ UNCHANGED <<registry, panicked, pc, val, v, i, errors, calls, arg, ret>>

\* goroutine g calls String with the shared validators: its errors is made
StringCallBy(g, value) ==
    /\ pc[g] # "loop"
    /\ pc' = [pc EXCEPT ![g] = "loop"]
    /\ val' = [val EXCEPT ![g] = value]
    /\ v' = [v EXCEPT ![g] = pool]
    /\ i' = [i EXCEPT ![g] = 0]
    /\ errors' = [errors EXCEPT ![g] = make]
    /\ calls' = [calls EXCEPT ![g] = <<>>]
    /\ UNCHANGED <<registry, pool, panicked, arg, ret>>

\* a variant of StringLoopBy in which errors is one slice for all goroutines
StringLoopBySharedErrors(g) ==
    /\ pc[g] = "loop"
    /\ i[g] < Len(v[g])
    /\ \E err \in {Validate(v[g][i[g] + 1], val[g])} :
           /\ calls' = [calls EXCEPT ![g] = Append(calls[g], i[g] + 1)]
           /\ errors' = [h \in Goroutines |->
                            IF ~err.nil THEN append(errors[g], err) ELSE errors[g]]
    /\ i' = [i EXCEPT ![g] = i[g] + 1]
    /\ UNCHANGED <<registry, pool, panicked, pc, val, v, arg, ret>>

\* one iteration of the range loop of goroutine g's String call
StringLoopBy(g) ==
    /\ pc[g] = "loop"
    /\ i[g] < Len(v[g])
    /\ \E err \in {Validate(v[g][i[g] + 1], val[g])} :
           /\ calls' = [calls EXCEPT ![g] = Append(calls[g], i[g] + 1)]
           /\ errors' = [errors EXCEPT ![g] =
                            IF ~err.nil THEN append(errors[g], err) ELSE errors[g]]
    /\ i' = [i EXCEPT ![g] = i[g] + 1]
    /\ UNCHANGED <<registry, pool, panicked, pc, val, v, arg, ret>>

\* the range loop of goroutine g is over: its String call returns errors
StringReturnBy(g) ==
    /\ pc[g] = "loop"
    /\ i[g] = Len(v[g])
    /\ pc' = [pc EXCEPT ![g] = "done"]
    /\ UNCHANGED <<registry, pool, panicked, val, v, i, errors, calls, arg, ret>>

\* validators are constructed, then the goroutines call String on them, each
\* as often as it likes and one iteration at a time
NextConcurrent ==
    \/ ConstructShared(Email("is not email"))
    \/ ConstructShared(Alphanumeric("a"))
    \/ ConstructShared(EmailRFC("a"))
    \/ ConstructShared(MinLen(5, "this should fail"))
    \/ \E g \in Goroutines, value \in SessionValues : StringCallBy(g, value)
    \/ \E g \in Goroutines : StringLoopBy(g)
    \/ \E g \in Goroutines : StringReturnBy(g)

SpecConcurrent == InitConcurrent /\ [][NextConcurrent]_vars

(***************************************************************************)
(* Properties.                                                             *)
(***************************************************************************)
\* the validator and value of the last direct Validate call, if there is one
Called(ctor) == arg # NoCall /\ arg.sv.ctor = ctor

\* the non-nil errors of the first n validators of v on val, in the order of v
RECURSIVE Failures(_)
Failures(n) ==
    IF n = 0 THEN <<>>
    ELSE IF Validate(v[n], val).nil THEN Failures(n - 1)
    ELSE Append(Failures(n - 1), Validate(v[n], val))

\* C1: String calls Validate(val) on every validator of v exactly once and in
\* the order of v, a failure does not stop it, and what it returns is the
\* non-nil errors of those calls in the order of their validators.
C1_StringCallsAllInOrder ==
    pc \in {"loop", "done"} =>
        /\ i \in 0..Len(v)
        /\ calls = [k \in 1..i |-> k]
        /\ errors.elems = Failures(i)
        /\ (pc = "done" => i = Len(v))

\* String has returned for the validators and the value of TestString: the
\* first and the third validator fail, the second passes
C1_Witness ==
    /\ pc = "done"
    /\ val = TestJohn
    /\ v = <<Email("is not email"), MaxLen(10, "this should pass"),
             MinLen(5, "this should fail")>>
    /\ calls = <<1, 2, 3>>
    /\ errors.elems = <<errors_New("is not email"), errors_New("this should fail")>>

\* C2: the slice String returns is never nil, also for an empty list of
\* validators; it holds as many errors as validators of the list fail on the
\* value, and is empty exactly when all of them pass.
C2_StringReturnsPresentSlice ==
    pc = "done" =>
        /\ ~errors.nil
        /\ Len(errors.elems) = Cardinality({k \in 1..Len(v) : ~Validate(v[k], val).nil})
        /\ (errors.elems = <<>> <=> \A k \in 1..Len(v) : Validate(v[k], val).nil)

\* String has returned an empty slice for validators that all pass
C2_Witness ==
    /\ pc = "done"
    /\ Len(v) >= 2
    /\ \A k \in 1..Len(v) : Validate(v[k], val).nil
    /\ errors = [nil |-> FALSE, elems |-> <<>>]

\* C3: Len(min, max, msg).Validate(value) returns nil exactly when
\* min <= len(value) <= max, for bounds of either sign; with min > max it
\* returns an error for every value.
C3_LenInclusive ==
    Called("Len") =>
        /\ ret.nil <=> (arg.sv.min <= len(arg.val) /\ len(arg.val) <= arg.sv.max)
        /\ (arg.sv.min > arg.sv.max => ~ret.nil)

\* Len with a negative min accepts a value whose length is max
C3_Witness ==
    /\ Called("Len")
    /\ arg.sv.min < 0
    /\ len(arg.val) = arg.sv.max
    /\ arg.val # <<>>
    /\ ret.nil

\* C4: LenStrict(min, max, msg).Validate(value) returns nil exactly when
\* min < len(value) < max; LenStrict(k, k, msg) and LenStrict(k, k+1, msg)
\* reject every value.
C4_LenStrictExclusive ==
    Called("LenStrict") =>
        /\ ret.nil <=> (arg.sv.min < len(arg.val) /\ len(arg.val) < arg.sv.max)
        /\ (len(arg.val) \in {arg.sv.min, arg.sv.max} => ~ret.nil)
        /\ (arg.sv.max \in {arg.sv.min, WrapInt(arg.sv.min + 1)} => ~ret.nil)

\* LenStrict rejects a value whose length is max and accepts the value one
\* byte shorter
C4_Witness ==
    /\ Called("LenStrict")
    /\ arg.val # <<>>
    /\ arg.sv.min < len(arg.val)
    /\ len(arg.val) = arg.sv.max
    /\ ~ret.nil
    /\ Validate(arg.sv, Tail(arg.val)).nil

\* C5 as stated: for every bound b of the host int, MinLenStrict(b) accepts a
\* value exactly when MinLen(b+1) accepts it and MaxLenStrict(b) accepts a
\* value exactly when MaxLen(b-1) accepts it, b+1 and b-1 being host ints.
C5_StrictIsShiftedForEveryBound ==
    /\ Called("MinLenStrict") =>
           /\ ret.nil <=> len(arg.val) >= WrapInt(arg.sv.min + 1)
           /\ ret.nil <=>
                  Validate(MinLen(WrapInt(arg.sv.min + 1), arg.sv.message), arg.val).nil
    /\ Called("MaxLenStrict") =>
           /\ ret.nil <=> len(arg.val) <= WrapInt(arg.sv.max - 1)
           /\ ret.nil <=>
                  Validate(MaxLen(WrapInt(arg.sv.max - 1), arg.sv.message), arg.val).nil

\* C5: MinLen(b) accepts a value exactly when len(value) >= b and MaxLen(b)
\* exactly when len(value) <= b; for every b below the largest host int
\* MinLenStrict(b) accepts exactly what MinLen(b+1) accepts, and for every b
\* above the smallest host int MaxLenStrict(b) accepts exactly what
\* MaxLen(b-1) accepts; MinLenStrict of the largest host int and MaxLenStrict
\* of the smallest reject every value.
C5_StrictIsShifted ==
    /\ Called("MinLen") => (ret.nil <=> len(arg.val) >= arg.sv.min)
    /\ Called("MaxLen") => (ret.nil <=> len(arg.val) <= arg.sv.max)
    /\ Called("MinLenStrict") /\ arg.sv.min < MaxInt =>
           /\ ret.nil <=> len(arg.val) >= arg.sv.min + 1
           /\ ret.nil <=> Validate(MinLen(arg.sv.min + 1, arg.sv.message), arg.val).nil
    /\ Called("MaxLenStrict") /\ arg.sv.max > MinInt =>
           /\ ret.nil <=> len(arg.val) <= arg.sv.max - 1
           /\ ret.nil <=> Validate(MaxLen(arg.sv.max - 1, arg.sv.message), arg.val).nil
    /\ Called("MinLenStrict") /\ arg.sv.min = MaxInt => ~ret.nil
    /\ Called("MaxLenStrict") /\ arg.sv.max = MinInt => ~ret.nil

\* MinLenStrict(b) accepts a value of length b+1, which MinLen(b+1) accepts
\* and MinLen(b+2) rejects
C5_Witness ==
    /\ Called("MinLenStrict")
    /\ arg.sv.min > 0
    /\ len(arg.val) = arg.sv.min + 1
    /\ ret.nil
    /\ Validate(MinLen(arg.sv.min + 1, arg.sv.message), arg.val).nil
    /\ ~Validate(MinLen(arg.sv.min + 2, arg.sv.message), arg.val).nil

\* C6: Validate of a validator built with message m returns nil or an error
\* whose text is m, whatever constructor built it, and the process does not
\* panic in a Validate call: the only panic is that of a constructor, before
\* any Validate call.
C6_FailureIsTheMessage ==
    /\ arg # NoCall => (ret = NilError \/ (~ret.nil /\ ret.s = arg.sv.message))
    /\ panicked # NoPanic => arg = NoCall

\* EmailRFC returns the configured message for a value the mail parser
\* rejects with an error text of its own
C6_Witness ==
    /\ Called("EmailRFC")
    /\ arg.sv.message = "a"
    /\ ~mail_ParseAddress(arg.val).err.nil
    /\ mail_ParseAddress(arg.val).err.s # arg.sv.message
    /\ ret = errors_New("a")

\* the runes the W3C HTML5 e-mail pattern allows before the "@"
W3CLocalRunes ==
    {r \in Runes : RuneCode[r] \in (48..57) \cup (65..90) \cup (97..122)} \cup
    {".", "!", "#", "$", "%", "&", "'", "*", "+", "/", "=", "?", "^", "_", "U+0060",
     "{", "|", "}", "~", "-"}

\* the runes of a label: ASCII letters, digits and the hyphen
W3CLabelRunes ==
    {r \in Runes : RuneCode[r] \in (48..57) \cup (65..90) \cup (97..122)} \cup {"-"}

\* s is a non-empty local part, "@", and non-empty labels separated by dots
W3CEmail(s) ==
    \E k \in 2..(Len(s) - 1) :
        /\ s[k] = "@"
        /\ \A j \in 1..(k - 1) : s[j] \in W3CLocalRunes
        /\ \A j \in (k + 1)..Len(s) : s[j] \in W3CLabelRunes \cup {"."}
        /\ s[k + 1] # "."
        /\ s[Len(s)] # "."
        /\ \A j \in (k + 1)..(Len(s) - 1) : ~(s[j] = "." /\ s[j + 1] = ".")

\* C7: Email(msg) accepts a value exactly when the whole value is an address
\* of the W3C HTML5 e-mail pattern, whose local part may hold the ASCII
\* apostrophe.
C7_EmailIsW3C ==
    Called("Email") => (ret.nil <=> W3CEmail(arg.val))

\* C8: EmailRFC(msg).Validate(value) returns nil exactly when the mail parser
\* parses value and the parsed address has an empty display name.
C8_EmailRFCNoDisplayName ==
    Called("EmailRFC") =>
        (ret.nil <=>
            /\ mail_ParseAddress(arg.val).err.nil
            /\ mail_ParseAddress(arg.val).addr.Name = <<>>)

\* EmailRFC rejects the mailbox with a display name of the package's tests
C8_Witness ==
    /\ Called("EmailRFC")
    /\ arg.val = TestNamedEmail
    /\ mail_ParseAddress(arg.val).err.nil
    /\ mail_ParseAddress(arg.val).addr.Name = <<"J", "o", "h", "n">>
    /\ ~ret.nil

\* C9: Regexp panics at construction, and returns no validator, for a
\* pattern that does not compile; every validator Regexp returns holds a
\* pattern that compiles, and its Validate returns nil exactly when the
\* compiled pattern matches somewhere in the value.
C9_RegexpPanicsOnBadPattern ==
    /\ panicked # NoPanic =>
           /\ regexp_Compile(panicked.expr).err # ""
           /\ panicked.code = regexp_Compile(panicked.expr).err
           /\ pool = <<>>
    /\ \A k \in 1..Len(pool) :
           pool[k].ctor = "Regexp" =>
               /\ regexp_Compile(pool[k].reg.expr).err = ""
               /\ pool[k].reg.re = regexp_Compile(pool[k].reg.expr).re
    /\ Called("Regexp") =>
           (ret.nil <=> MatchString(regexp_Compile(arg.sv.reg.expr).re, arg.val))

\* a validator of Regexp with the pattern "a" accepts "ba": the pattern is
\* not anchored
C9_Witness ==
    /\ Called("Regexp")
    /\ arg.sv.reg.expr = <<"a">>
    /\ arg.val = <<"b", "a">>
    /\ ret.nil

\* C10: no operation of the package changes RegAlphanumeric,
\* RegAlphanumericPermissive or RegEmail: every validator of Alphanumeric,
\* AlphanumericPermissive and Email holds the pattern the entry was
\* initialized with, whenever it was constructed, and gives the verdict of
\* that pattern.
C10_RegistryFixed ==
    /\ registry = RegistryInit
    /\ \A k \in 1..Len(pool) :
           /\ pool[k].ctor = "Alphanumeric" => pool[k].reg = RegistryInit.RegAlphanumeric
           /\ pool[k].ctor = "AlphanumericPermissive" =>
                  pool[k].reg = RegistryInit.RegAlphanumericPermissive
           /\ pool[k].ctor = "Email" => pool[k].reg = RegistryInit.RegEmail
    /\ Called("Alphanumeric") =>
           (ret.nil <=> MatchString(RegistryInit.RegAlphanumeric.re, arg.val))
    /\ Called("AlphanumericPermissive") =>
           (ret.nil <=> MatchString(RegistryInit.RegAlphanumericPermissive.re, arg.val))
    /\ Called("Email") =>
           (ret.nil <=> MatchString(RegistryInit.RegEmail.re, arg.val))

\* an Email validator constructed after two other validators of the
\* registry accepts the address of the package's tests
C10_Witness ==
    /\ Len(pool) >= 3
    /\ pool[1].ctor = "Alphanumeric"
    /\ pool[2].ctor = "Email"
    /\ pool[Len(pool)].ctor = "Email"
    /\ arg.sv = pool[Len(pool)]
    /\ arg.val = TestEmail
    /\ ret.nil

\* what String(value, vs...) returns when nothing else runs: the non-nil
\* errors of the validators of vs on value, in the order of vs
RECURSIVE StringAlone(_, _)
StringAlone(vs, value) ==
    IF vs = <<>> THEN <<>>
    ELSE IF Validate(vs[Len(vs)], value).nil
    THEN StringAlone(SubSeq(vs, 1, Len(vs) - 1), value)
    ELSE Append(StringAlone(SubSeq(vs, 1, Len(vs) - 1), value),
                Validate(vs[Len(vs)], value))

\* C11: concurrent String calls that share the validators and the registry do
\* not interfere: under every interleaving of their iterations, each call
\* holds, and at its end returns, exactly the errors it produces when it runs
\* alone on its value and validators, and two calls with the same value and
\* validators return the same.
C11_ConcurrentCallsDoNotInterfere ==
    /\ \A g \in Goroutines :
           pc[g] \in {"loop", "done"} =>
               /\ i[g] \in 0..Len(v[g])
               /\ ~errors[g].nil
               /\ errors[g].elems = StringAlone(SubSeq(v[g], 1, i[g]), val[g])
               /\ (pc[g] = "done" => errors[g].elems = StringAlone(v[g], val[g]))
    /\ \A g \in Goroutines, h \in Goroutines :
           (pc[g] = "done" /\ pc[h] = "done" /\ val[g] = val[h] /\ v[g] = v[h])
               => errors[g] = errors[h]
    /\ registry = RegistryInit

\* two String calls on different values are under way at once on the same
\* registry validators, each after its first iteration: the e-mail pattern
\* has failed one value and passed the other
C11_Witness ==
    /\ pc = [g \in Goroutines |-> "loop"]
    /\ v[1] = <<Email("is not email"), Alphanumeric("a")>>
    /\ v[2] = v[1]
    /\ val[1] = TestJohn
    /\ val[2] = TestEmail
    /\ i = [g \in Goroutines |-> 1]
    /\ errors[1].elems = <<errors_New("is not email")>>
    /\ errors[2].elems = <<>>
====
